---- MODULE Spec2Model ----
(***************************************************************************)
(* State-machine model of src/app.py, the Streamlit "AI Medical Assistant". *)
(* One action is one user event together with the script run(s) it causes:  *)
(* Streamlit re-executes the whole script on every event, and               *)
(* st.experimental_rerun() restarts it immediately.  Text is modelled as a  *)
(* sequence of one-character strings so that lower(), replace(), the        *)
(* substring test and join() are computed, not assumed.                     *)
(***************************************************************************)
EXTENDS Integers, Sequences, FiniteSets, TLC

VARIABLES
    mode,            \* value of the st.selectbox "Choose a mode:"
    session_state,   \* st.session_state: a function from the keys present to their values
    student_query,   \* value held by the text_input keyed "student_query"
    step_input,      \* value held by the text_input keyed f"step_{current_step}"
    uploaded_file,   \* value held by the st.file_uploader
    pass,            \* what the last run of the script (a pass) did and displayed
    request,         \* the request handed to the Generation Client in the last pass
    diag_calls,      \* diagnostic generation calls issued for the current interview instance
    submitted        \* texts accepted by the step machine since the last restart

vars == <<mode, session_state, student_query, step_input, uploaded_file,
          pass, request, diag_calls, submitted>>

(* ------------------------------ bounds --------------------------------- *)

\* number of leading entries of the interview script that are modelled
NSteps == 2

\* student_history is not grown beyond this many entries
MaxHistory == 4

\* diagnostic calls explored for one completed interview instance
MaxDiagCalls == 2

(* ------------------------- constants of app.py -------------------------- *)

medical_keywords ==
    << <<"s", "y", "m", "p", "t", "o", "m">>,
       <<"d", "i", "s", "e", "a", "s", "e">>,
       <<"t", "r", "e", "a", "t", "m", "e", "n", "t">>,
       <<"m", "e", "d", "i", "c", "i", "n", "e">>,
       <<"d", "i", "a", "g", "n", "o", "s", "i", "s">>,
       <<"d", "o", "c", "t", "o", "r">>,
       <<"h", "e", "a", "l", "t", "h">>,
       <<"i", "l", "l", "n", "e", "s", "s">>,
       <<"p", "a", "i", "n">>,
       <<"f", "e", "v", "e", "r">>,
       <<"i", "n", "f", "e", "c", "t", "i", "o", "n">>,
       <<"i", "n", "j", "u", "r", "y">>,
       <<"t", "e", "s", "t">>,
       <<"s", "c", "a", "n">>,
       <<"m", "e", "d", "i", "c", "a", "l">>,
       <<"s", "u", "r", "g", "e", "r", "y">>,
       <<"p", "r", "e", "s", "c", "r", "i", "p", "t", "i", "o", "n">>,
       <<"a", "l", "l", "e", "r", "g", "y">>,
       <<"h", "o", "s", "p", "i", "t", "a", "l">>,
       <<"c", "l", "i", "n", "i", "c">>,
       <<"b", "l", "o", "o", "d">>,
       <<"p", "r", "e", "s", "s", "u", "r", "e">>,
       <<"d", "i", "a", "b", "e", "t", "e", "s">>,
       <<"c", "a", "n", "c", "e", "r">>,
       <<"a", "s", "t", "h", "m", "a">>,
       <<"h", "e", "a", "r", "t">>,
       <<"l", "u", "n", "g", "s">>,
       <<"m", "e", "n", "t", "a", "l", " ", "h", "e", "a", "l", "t", "h">> >>

all_clinical_steps ==
    << <<<<"C", "h", "i", "e", "f", " ", "C", "o", "m", "p", "l", "a", "i", "n", "t">>,
          "What brings you in today? What is your main concern?">>,
       <<<<"H", "P", "I", "_", "O", "n", "s", "e", "t">>,
          "When did this problem start?">>,
       <<<<"H", "P", "I", "_", "L", "o", "c", "a", "t", "i", "o", "n">>,
          "Where is the symptom located?">>,
       <<<<"H", "P", "I", "_", "D", "u", "r", "a", "t", "i", "o", "n">>,
          "How long does it last? Is it constant or intermittent?">>,
       <<<<"H", "P", "I", "_", "C", "h", "a", "r", "a", "c", "t", "e", "r">>,
          "What does it feel like (e.g., sharp, dull, throbbing, burning)?">>,
       <<<<"H", "P", "I", "_", "A", "g", "g", "r", "a", "v", "a", "t", "i", "n", "g">>,
          "What makes it worse?">>,
       <<<<"H", "P", "I", "_", "R", "e", "l", "i", "e", "v", "i", "n", "g">>,
          "What makes it better?">>,
       <<<<"H", "P", "I", "_", "T", "i", "m", "i", "n", "g">>,
          "Does it occur at a specific time of day?">>,
       <<<<"H", "P", "I", "_", "S", "e", "v", "e", "r", "i", "t", "y">>,
          "On a scale of 0-10, how bad is it?">>,
       <<<<"H", "P", "I", "_", "A", "s", "s", "o", "c", "i", "a", "t", "e", "d">>,
          "Are there any other symptoms accompanying the main problem?">>,
       <<<<"P", "M", "H">>,
          "Do you have any chronic conditions, past illnesses, surgeries, or hospitalizations?">>,
       <<<<"M", "e", "d", "i", "c", "a", "t", "i", "o", "n", "s">>,
          "What medications are you currently taking? Any allergies?">>,
       <<<<"F", "a", "m", "i", "l", "y", " ", "H", "i", "s", "t", "o", "r", "y">>,
          "Any significant diseases in your family (e.g., heart disease, diabetes)?">>,
       <<<<"S", "o", "c", "i", "a", "l", " ", "H", "i", "s", "t", "o", "r", "y">>,
          "Do you smoke, drink alcohol, use recreational drugs? What is your occupation and living situation?">>,
       <<<<"R", "e", "v", "i", "e", "w", " ", "o", "f", " ", "S", "y", "s", "t", "e", "m", "s">>,
          "Do you have any other symptoms in other body systems (e.g., fever, cough, rashes, joint pain, etc.)?">> >>

system_prompt ==
    <<"Y", "o", "u", " ", "a", "r", "e", " ", "a", " ", "h", "e", "l", "p", "f", "u", "l", " ",
      "m", "e", "d", "i", "c", "a", "l", " ", "a", "s", "s", "i", "s", "t", "a", "n", "t", ".",
      " ", "O", "n", "l", "y", " ", "a", "n", "s", "w", "e", "r", " ", "m", "e", "d", "i", "c",
      "a", "l", ",", " ", "h", "e", "a", "l", "t", "h", ",", " ", "o", "r", " ", "d", "o", "c",
      "t", "o", "r", "-", "r", "e", "l", "a", "t", "e", "d", " ", "q", "u", "e", "s", "t", "i",
      "o", "n", "s", ".", " ", "I", "f", " ", "t", "h", "e", " ", "q", "u", "e", "r", "y", " ",
      "i", "s", " ", "n", "o", "t", " ", "m", "e", "d", "i", "c", "a", "l", ",", " ", "p", "o",
      "l", "i", "t", "e", "l", "y", " ", "r", "e", "f", "u", "s", "e", " ", "t", "o", " ", "a",
      "n", "s", "w", "e", "r", ".">>

diagnostic_instructions ==
    <<"Y", "o", "u", " ", "a", "r", "e", " ", "a", " ", "c", "a", "r", "e", "f", "u", "l", ",",
      " ", "e", "x", "p", "e", "r", "t", " ", "m", "e", "d", "i", "c", "a", "l", " ", "A", "I",
      ".", " ", "G", "i", "v", "e", "n", " ", "t", "h", "e", " ", "f", "o", "l", "l", "o", "w",
      "i", "n", "g", " ", "p", "a", "t", "i", "e", "n", "t", " ", "h", "i", "s", "t", "o", "r",
      "y", ",", " ", "p", "l", "e", "a", "s", "e", " ", "d", "o", " ", "t", "h", "e", " ", "f",
      "o", "l", "l", "o", "w", "i", "n", "g", ":", "\n", "1", ".", " ", "S", "u", "m", "m", "a",
      "r", "i", "z", "e", " ", "t", "h", "e", " ", "k", "e", "y", " ", "f", "i", "n", "d", "i",
      "n", "g", "s", ".", "\n", "2", ".", " ", "L", "i", "s", "t", " ", "t", "h", "e", " ", "m",
      "o", "s", "t", " ", "l", "i", "k", "e", "l", "y", " ", "d", "i", "f", "f", "e", "r", "e",
      "n", "t", "i", "a", "l", " ", "d", "i", "a", "g", "n", "o", "s", "e", "s", " ", "(", "w",
      "i", "t", "h", " ", "r", "e", "a", "s", "o", "n", "i", "n", "g", ")", ".", "\n", "3", ".",
      " ", "S", "u", "g", "g", "e", "s", "t", " ", "t", "h", "e", " ", "m", "o", "s", "t", " ",
      "a", "p", "p", "r", "o", "p", "r", "i", "a", "t", "e", " ", "n", "e", "x", "t", " ", "d",
      "i", "a", "g", "n", "o", "s", "t", "i", "c", " ", "t", "e", "s", "t", "s", " ", "(", "w",
      "i", "t", "h", " ", "j", "u", "s", "t", "i", "f", "i", "c", "a", "t", "i", "o", "n", ")",
      ".", "\n", "4", ".", " ", "S", "u", "g", "g", "e", "s", "t", " ", "a", " ", "g", "e", "n",
      "e", "r", "a", "l", " ", "p", "l", "a", "n", " ", "f", "o", "r", " ", "m", "a", "n", "a",
      "g", "e", "m", "e", "n", "t", " ", "a", "n", "d", " ", "f", "o", "l", "l", "o", "w", "-",
      "u", "p", ".", "\n", "5", ".", " ", "R", "e", "m", "i", "n", "d", " ", "t", "h", "e", " ",
      "u", "s", "e", "r", " ", "t", "h", "a", "t", " ", "t", "h", "i", "s", " ", "i", "s", " ",
      "n", "o", "t", " ", "a", " ", "r", "e", "a", "l", " ", "d", "i", "a", "g", "n", "o", "s",
      "i", "s", " ", "a", "n", "d", " ", "t", "h", "e", "y", " ", "m", "u", "s", "t", " ", "c",
      "o", "n", "s", "u", "l", "t", " ", "a", " ", "h", "e", "a", "l", "t", "h", "c", "a", "r",
      "e", " ", "p", "r", "o", "v", "i", "d", "e", "r", ".", "\n", "\n", "P", "a", "t", "i", "e",
      "n", "t", " ", "h", "i", "s", "t", "o", "r", "y", ":", "\n">>

report_prompt ==
    <<"T", "h", "i", "s", " ", "i", "s", " ", "a", " ", "m", "e", "d", "i", "c", "a", "l", " ",
      "r", "e", "p", "o", "r", "t", ".", " ", "P", "l", "e", "a", "s", "e", " ", "a", "n", "a",
      "l", "y", "z", "e", " ", "a", "n", "d", " ", "s", "u", "m", "m", "a", "r", "i", "z", "e",
      " ", "t", "h", "e", " ", "k", "e", "y", " ", "m", "e", "d", "i", "c", "a", "l", " ", "f",
      "i", "n", "d", "i", "n", "g", "s", ",", " ", "t", "e", "s", "t", "s", ",", " ", "a", "n",
      "d", " ", "a", "n", "y", " ", "n", "o", "t", "a", "b", "l", "e", " ", "r", "e", "s", "u",
      "l", "t", "s", ".", " ", "I", "f", " ", "t", "h", "i", "s", " ", "i", "s", " ", "n", "o",
      "t", " ", "a", " ", "m", "e", "d", "i", "c", "a", "l", " ", "r", "e", "p", "o", "r", "t",
      ",", " ", "r", "e", "s", "p", "o", "n", "d", ":", " ", "'", "S", "o", "r", "r", "y", ",",
      " ", "I", " ", "c", "a", "n", " ", "o", "n", "l", "y", " ", "a", "n", "a", "l", "y", "z",
      "e", " ", "m", "e", "d", "i", "c", "a", "l", " ", "r", "e", "p", "o", "r", "t", "s", ".",
      "'">>

MimeJpeg ==
    <<"i", "m", "a", "g", "e", "/", "j", "p", "e", "g">>

MimePng ==
    <<"i", "m", "a", "g", "e", "/", "p", "n", "g">>

MimePdf ==
    <<"a", "p", "p", "l", "i", "c", "a", "t", "i", "o", "n", "/", "p", "d", "f">>

MimeOctet ==
    <<"a", "p", "p", "l", "i", "c", "a", "t", "i", "o", "n", "/", "o", "c", "t", "e", "t", "-",
      "s", "t", "r", "e", "a", "m">>

ExtJpg ==
    <<"j", "p", "g">>

ExtJpeg ==
    <<"j", "p", "e", "g">>

ExtPng ==
    <<"p", "n", "g">>

ExtPdf ==
    <<"p", "d", "f">>

(* ------------------------- inputs that are explored --------------------- *)

TextPain ==
    <<"I", " ", "h", "a", "v", "e", " ", "p", "a", "i", "n">>

TextHeadache ==
    <<"I", " ", "h", "a", "v", "e", " ", "a", " ", "h", "e", "a", "d", "a", "c", "h", "e">>

TextYesterday ==
    <<"s", "i", "n", "c", "e", " ", "y", "e", "s", "t", "e", "r", "d", "a", "y">>

TextFever ==
    <<"F", "E", "V", "E", "R">>

TextReply ==
    <<"P", "l", "e", "a", "s", "e", " ", "r", "e", "s", "t">>

Empty == <<>>

UpperCase == <<"A", "B", "C", "D", "E", "F", "G", "H", "I", "J", "K", "L", "M",
               "N", "O", "P", "Q", "R", "S", "T", "U", "V", "W", "X", "Y", "Z">>

LowerCase == <<"a", "b", "c", "d", "e", "f", "g", "h", "i", "j", "k", "l", "m",
               "n", "o", "p", "q", "r", "s", "t", "u", "v", "w", "x", "y", "z">>

clinical_steps == SubSeq(all_clinical_steps, 1, NSteps)

N == Len(clinical_steps)

StepId(i) == clinical_steps[i + 1][1]

StepQuestion(i) == clinical_steps[i + 1][2]

(* --------------------------- string helpers ----------------------------- *)

\* str.lower() on one character
lower_char(c) ==
    IF \E i \in 1..Len(UpperCase) : UpperCase[i] = c
    THEN LowerCase[CHOOSE i \in 1..Len(UpperCase) : UpperCase[i] = c]
    ELSE c

\* str.lower()
lower(s) == [i \in 1..Len(s) |-> lower_char(s[i])]

\* word in text, matched at word boundaries only
ContainsWord(text, word) ==
    \E i \in 1..(Len(text) - Len(word) + 1) :
        /\ SubSeq(text, i, i + Len(word) - 1) = word
        /\ (i = 1 \/ text[i - 1] = " ")
        /\ (i + Len(word) - 1 = Len(text) \/ text[i + Len(word)] = " ")

\* Python's  word in text  on strings: word occurs as a contiguous substring
Contains(text, word) ==
    \E i \in 1..(Len(text) - Len(word) + 1) : SubSeq(text, i, i + Len(word) - 1) = word

\* str.replace(old, new) for one-character old and new
replace(s, old, new) == [i \in 1..Len(s) |-> IF s[i] = old THEN new ELSE s[i]]

\* sep.join(lines)
RECURSIVE join(_, _)
join(sep, lines) ==
    IF lines = <<>> THEN <<>>
    ELSE IF Len(lines) = 1 THEN lines[1]
    ELSE lines[1] \o sep \o join(sep, Tail(lines))

\* s.split(sep)[-1] for a one-character sep: what follows the last sep, or all of s
split_last(s, sep) ==
    LET cuts == {i \in 1..Len(s) : s[i] = sep}
    IN  IF cuts = {} THEN s
        ELSE SubSeq(s, (CHOOSE i \in cuts : \A j \in cuts : j <= i) + 1, Len(s))

(* ---------------- dict, kept in insertion order as Python does ---------- *)

dict_keys(d) == [i \in 1..Len(d) |-> d[i][1]]

dict_has(d, k) == \E i \in 1..Len(d) : d[i][1] = k

\* d[k] = v with the new item put first
dict_set_front(d, k, v) == <<<<k, v>>>> \o d

\* d[k] = v : an existing key keeps its position, a new key goes last
dict_set(d, k, v) ==
    IF dict_has(d, k)
    THEN [i \in 1..Len(d) |-> IF d[i][1] = k THEN <<k, v>> ELSE d[i]]
    ELSE Append(d, <<k, v>>)

\* d.get(k, default)
dict_get(d, k, default) ==
    IF dict_has(d, k) THEN d[CHOOSE i \in 1..Len(d) : d[i][1] = k][2] ELSE default

(* ------------------------- utility functions ---------------------------- *)

\* lines 25-26 without the lower()
is_medical_query_case_sensitive(query) ==
    \E k \in 1..Len(medical_keywords) : Contains(query, medical_keywords[k])

is_medical_query(query) ==
    LET query_lower == lower(query)
    IN  \E k \in 1..Len(medical_keywords) : Contains(query_lower, medical_keywords[k])

\* the media type tag get_gemini_response attaches to the binary part
mime_type(file_type) ==
    IF file_type \in {ExtJpg, ExtJpeg, ExtPng} THEN <<"i", "m", "a", "g", "e", "/">> \o file_type
    ELSE IF file_type = ExtPdf THEN MimePdf
    ELSE MimeOctet

NoRequest == [kind |-> "none"]

\* outcome is what the remote service does with the request: a text, or an error
get_gemini_response(messages, vision, file_data, file_type, outcome) ==
    IF vision /\ file_data # <<>>
    THEN [request |-> [kind |-> "generate_content",
                       parts |-> << [text |-> messages[Len(messages)].content],
                                    [mime_type |-> mime_type(file_type), data |-> file_data] >>],
          ok |-> outcome.ok, text |-> outcome.text]
    ELSE [request |-> [kind |-> "chat",
                       history |-> [i \in 1..Len(messages) |->
                                       [role |-> messages[i].role,
                                        parts |-> <<messages[i].content>>]],
                       user_msg |-> messages[Len(messages)].content],
          ok |-> outcome.ok, text |-> outcome.text]

\* questions tried in Student Help: an upper-case keyword, a phrase without any keyword
Queries == {TextFever, TextHeadache}

\* answers tried in Doctor Analysis: two with a keyword, one without
Answers == {TextPain, TextFever, TextYesterday}

\* what the Generation Client may do with a request
Outcomes == {[ok |-> TRUE, text |-> TextReply], [ok |-> FALSE, text |-> Empty]}

NoFile == [type |-> Empty, data |-> Empty, present |-> FALSE]

\* uploads the file_uploader can deliver: the browser's media type and the bytes
Files ==
    {[type |-> t, data |-> <<1>>, present |-> TRUE] : t \in {MimeJpeg, MimePng, MimePdf}}
    \cup {[type |-> MimePdf, data |-> Empty, present |-> TRUE]}

Modes == {"Select...", "Student Help", "Doctor Analysis", "Report Result"}

(* ------------------------- st.session_state ----------------------------- *)

Has(ss, key) == key \in DOMAIN ss

\* st.session_state.key = value
With(ss, key, value) == [k \in DOMAIN ss \cup {key} |-> IF k = key THEN value ELSE ss[k]]

\* lines 70-71, 114-117 without the "if ... not in st.session_state"
SetDefault_always(ss, key, value) == With(ss, key, value)

\* if key not in st.session_state: st.session_state.key = value
SetDefault(ss, key, value) == IF Has(ss, key) THEN ss ELSE With(ss, key, value)

(* ----------------------- one run of the script -------------------------- *)

\* what one run leaves behind: the session state, what it called and displayed,
\* whether it ended in st.experimental_rerun(), whether it rendered the restart button
Result(ss, gen, shown, req, rerun, button, question) ==
    [ss |-> ss, gen |-> gen, shown |-> shown, request |-> req,
     rerun |-> rerun, button |-> button, question |-> question]

\* line 75 with the check switched off
refused_never(query) == FALSE

\* line 75: the question is turned away
refused(query) == ~is_medical_query(query)

\* lines 78 and 86 with the role of line 86 in both
history_entry_model(role, content) == [role |-> "model", content |-> content]

\* lines 78 and 86: {"role": ..., "content": ...}
history_entry(role, content) == [role |-> role, content |-> content]

\* lines 78 and 86 with insert(0, ...) in place of append
list_insert_front(list, item) == <<item>> \o list

\* lines 78 and 86: list.append
list_append(list, item) == Append(list, item)

\* line 83 without the instruction message
student_messages_bare(history) == history

\* line 83
student_messages(history) == <<history_entry("user", system_prompt)>> \o history

\* lines 66-87
student_run(ss, query, outcome) ==
    LET ss1 == SetDefault(ss, "student_history", <<>>)
        h1 == list_append(ss1.student_history, history_entry("user", query))
        messages == student_messages(h1)
        g == get_gemini_response(messages, FALSE, Empty, Empty, outcome)
    IN  IF query = Empty
        THEN Result(ss1, "none", "none", NoRequest, FALSE, FALSE, "")
        ELSE IF refused(query)
        THEN Result(ss1, "none", "warning", NoRequest, FALSE, FALSE, "")
        ELSE IF ~g.ok
        THEN Result(With(ss1, "student_history", h1),
                    "fail", "exception", g.request, FALSE, FALSE, "")
        ELSE Result(With(ss1, "student_history",
                         list_append(h1, history_entry("model", g.text))),
                    "ok", "reply", g.request, FALSE, FALSE, "")

\* line 126 without its "not"
rejected_inverted(user_input, current_step) ==
    is_medical_query(user_input) /\ current_step = 0

\* line 126 without "and current_step == 0"
rejected_every_step(user_input, current_step) == ~is_medical_query(user_input)

\* line 126: the answer is turned away
rejected(user_input, current_step) == ~is_medical_query(user_input) /\ current_step = 0

\* line 139 without the replace
summary_raw_ids(doctor_answers) ==
    join(<<"\n">>, [i \in 1..Len(doctor_answers) |->
                       doctor_answers[i][1] \o <<":", " ">> \o doctor_answers[i][2]])

\* line 139
summary(doctor_answers) ==
    join(<<"\n">>, [i \in 1..Len(doctor_answers) |->
                       replace(doctor_answers[i][1], "_", " ") \o <<":", " ">>
                           \o doctor_answers[i][2]])

\* lines 145-154
diagnostic_prompt(doctor_answers) == diagnostic_instructions \o summary(doctor_answers)

\* lines 129-130 with a fresh dict in place of the item assignment
record_answer_fresh_dict(ss, step_name, user_input) ==
    With(With(ss, "doctor_answers", <<<<step_name, user_input>>>>),
         "doctor_step", ss.doctor_step + 1)

\* lines 129-130
record_answer(ss, step_name, user_input) ==
    With(With(ss, "doctor_answers", dict_set(ss.doctor_answers, step_name, user_input)),
         "doctor_step", ss.doctor_step + 1)

\* lines 161-162 without line 162
restart_keeps_answers(ss) == With(ss, "doctor_step", 0)

\* lines 161-162
restart(ss) == With(With(ss, "doctor_step", 0), "doctor_answers", <<>>)

\* lines 91-165 with the button of lines 160-163 placed before the call of line 156
doctor_run_button_first(ss, user_input, clicked, outcome) ==
    LET ss1 == SetDefault(SetDefault(ss, "doctor_step", 0), "doctor_answers", <<>>)
        current_step == ss1.doctor_step
        g == get_gemini_response(
                 <<[role |-> "user", content |-> diagnostic_prompt(ss1.doctor_answers)]>>,
                 FALSE, Empty, Empty, outcome)
    IN  IF current_step < Len(clinical_steps)
        THEN IF user_input = Empty
             THEN Result(ss1, "none", "none", NoRequest, FALSE, FALSE,
                         StepQuestion(current_step))
             ELSE IF rejected(user_input, current_step)
             THEN Result(ss1, "none", "warning", NoRequest, FALSE, FALSE,
                         StepQuestion(current_step))
             ELSE Result(record_answer(ss1, StepId(current_step), user_input),
                         "none", "none", NoRequest, TRUE, FALSE, StepQuestion(current_step))
        ELSE IF clicked
        THEN Result(restart(ss1), "none", "none", NoRequest, TRUE, TRUE, "")
        ELSE IF ~g.ok
        THEN Result(ss1, "fail", "exception", g.request, FALSE, TRUE, "")
        ELSE Result(ss1, "ok", "reply", g.request, FALSE, TRUE, "")

\* lines 91-165; clicked: this run was caused by a click on "Start new analysis"
doctor_run(ss, user_input, clicked, outcome) ==
    LET ss1 == SetDefault(SetDefault(ss, "doctor_step", 0), "doctor_answers", <<>>)
        current_step == ss1.doctor_step
        g == get_gemini_response(
                 <<[role |-> "user", content |-> diagnostic_prompt(ss1.doctor_answers)]>>,
                 FALSE, Empty, Empty, outcome)
    IN  IF current_step < Len(clinical_steps)
        THEN IF user_input = Empty
             THEN Result(ss1, "none", "none", NoRequest, FALSE, FALSE,
                         StepQuestion(current_step))
             ELSE IF rejected(user_input, current_step)
             THEN Result(ss1, "none", "warning", NoRequest, FALSE, FALSE,
                         StepQuestion(current_step))
             ELSE Result(record_answer(ss1, StepId(current_step), user_input),
                         "none", "none", NoRequest, TRUE, FALSE, StepQuestion(current_step))
        ELSE IF ~g.ok
        THEN Result(ss1, "fail", "exception", g.request, FALSE, FALSE, "")
        ELSE IF clicked
        THEN Result(restart(ss1), "ok", "reply", g.request, TRUE, TRUE, "")
        ELSE Result(ss1, "ok", "reply", g.request, FALSE, TRUE, "")

\* lines 169-195 without the try/except of lines 184-193
report_run_uncaught(ss, file, outcome) ==
    LET file_type == split_last(file.type, "/")
        g == get_gemini_response(<<[role |-> "user", content |-> report_prompt]>>,
                                 TRUE, file.data, file_type, outcome)
    IN  IF ~file.present
        THEN Result(ss, "none", "none", NoRequest, FALSE, FALSE, "")
        ELSE IF g.ok
        THEN Result(ss, "ok", "analysis", g.request, FALSE, FALSE, "")
        ELSE Result(ss, "fail", "exception", g.request, FALSE, FALSE, "")

\* lines 169-195
report_run(ss, file, outcome) ==
    LET file_type == split_last(file.type, "/")
        g == get_gemini_response(<<[role |-> "user", content |-> report_prompt]>>,
                                 TRUE, file.data, file_type, outcome)
    IN  IF ~file.present
        THEN Result(ss, "none", "none", NoRequest, FALSE, FALSE, "")
        ELSE IF g.ok
        THEN Result(ss, "ok", "analysis", g.request, FALSE, FALSE, "")
        ELSE Result(ss, "fail", "error", g.request, FALSE, FALSE, "")

\* lines 199-209
landing_run(ss) == Result(ss, "none", "landing", NoRequest, FALSE, FALSE, "")

\* lines 57-209: the branch the mode selector chooses
script_run(m, ss, query, user_input, clicked, file, outcome) ==
    IF m = "Student Help" THEN student_run(ss, query, outcome)
    ELSE IF m = "Doctor Analysis" THEN doctor_run(ss, user_input, clicked, outcome)
    ELSE IF m = "Report Result" THEN report_run(ss, file, outcome)
    ELSE landing_run(ss)

\* line 124 with one text_input key for all steps: the widget keeps its text
step_widget_shared_key(r, user_input) == user_input

\* line 124: the text_input of a step has the key f"step_{current_step}", so the
\* run that follows an accepted answer renders a new widget, which is empty
step_widget(r, user_input) == IF r.rerun THEN Empty ELSE user_input

(* ---------------------------- the session ------------------------------- *)

doctor_step == session_state.doctor_step

doctor_answers == session_state.doctor_answers

student_history == session_state.student_history

Init ==
    /\ mode = "Select..."
    /\ session_state = [k \in {} |-> 0]
    /\ student_query = Empty
    /\ step_input = Empty
    /\ uploaded_file = NoFile
    /\ pass = [kind |-> "start", input |-> Empty, at_step |-> -1, gen |-> "none",
               shown |-> "landing", button |-> FALSE, question |-> "",
               rerun |-> FALSE, calls |-> 0]
    /\ request = NoRequest
    /\ diag_calls = 0
    /\ submitted = <<>>

\* the exploration stops growing the history and the per-instance call count here
Bounded(m, r) ==
    /\ Has(r.ss, "student_history") => Len(r.ss.student_history) <= MaxHistory
    /\ (m = "Doctor Analysis" /\ r.gen # "none") => diag_calls < MaxDiagCalls

\* current_step as line 119 reads it in a Doctor Analysis run
StepAtStart(m) ==
    IF m # "Doctor Analysis" THEN -1
    ELSE IF Has(session_state, "doctor_step") THEN doctor_step ELSE 0

\* bookkeeping of a run of the script: what was called and displayed, and the two
\* counters; pass.rerun says that the run ended in st.experimental_rerun() and the
\* run it asked for has not started yet
Observe(kind, m, input, clicked, r) ==
    LET diag == m = "Doctor Analysis" /\ r.gen # "none"
        restarted == m = "Doctor Analysis" /\ clicked /\ r.rerun
        accepted == m = "Doctor Analysis" /\ ~clicked /\ r.rerun
    IN  /\ pass' = [kind |-> kind, input |-> input, at_step |-> StepAtStart(m),
                    gen |-> r.gen, shown |-> r.shown, button |-> r.button,
                    question |-> r.question, rerun |-> r.rerun,
                    calls |-> IF diag THEN diag_calls + 1 ELSE 0]
        /\ request' = r.request
        /\ diag_calls' = IF restarted THEN 0
                         ELSE IF diag THEN diag_calls + 1 ELSE diag_calls
        /\ submitted' = IF restarted THEN <<>>
                        ELSE IF accepted THEN Append(submitted, input) ELSE submitted

\* the user picks another entry of the selectbox; widgets that are not rendered
\* in a run lose their value, so every input of the new mode starts empty
SelectMode(m, outcome) ==
    LET r == script_run(m, session_state, Empty, Empty, FALSE, NoFile, outcome)
    IN  /\ m # mode
        /\ Bounded(m, r)
        /\ mode' = m
        /\ session_state' = r.ss
        /\ student_query' = Empty
        /\ step_input' = Empty
        /\ uploaded_file' = NoFile
        /\ Observe("mode", m, Empty, FALSE, r)

\* the user enters a new value in "Enter your medical question:"
SubmitQuery(query, outcome) ==
    LET r == script_run(mode, session_state, query, Empty, FALSE, NoFile, outcome)
    IN  /\ mode = "Student Help"
        /\ query # student_query
        /\ Bounded(mode, r)
        /\ session_state' = r.ss
        /\ student_query' = query
        /\ UNCHANGED <<mode, step_input, uploaded_file>>
        /\ Observe("query", mode, query, FALSE, r)

\* the user enters a new value in the text_input of the current step; the run
\* ends at line 131 when the answer is accepted
SubmitAnswer(user_input, outcome) ==
    LET r == script_run(mode, session_state, Empty, user_input, FALSE, NoFile, outcome)
    IN  /\ mode = "Doctor Analysis"
        /\ ~pass.rerun
        /\ doctor_step < Len(clinical_steps)
        /\ user_input # step_input
        /\ Bounded(mode, r)
        /\ session_state' = r.ss
        /\ step_input' = step_widget(r, user_input)
        /\ UNCHANGED <<mode, student_query, uploaded_file>>
        /\ Observe("answer", mode, user_input, FALSE, r)

\* the user clicks "Start new analysis", which the last run rendered; the run
\* ends at line 163 when it reaches the button
PressRestart(outcome) ==
    LET r == script_run(mode, session_state, Empty, Empty, TRUE, NoFile, outcome)
    IN  /\ mode = "Doctor Analysis"
        /\ ~pass.rerun
        /\ pass.button
        /\ Bounded(mode, r)
        /\ session_state' = r.ss
        /\ UNCHANGED <<mode, student_query, step_input, uploaded_file>>
        /\ Observe("restart", mode, Empty, TRUE, r)

\* the run that st.experimental_rerun() asked for (lines 131, 163): a separate
\* execution of the script with the widgets as they are at that moment, so a
\* change of the selectbox that arrives first (SelectMode) takes its place
Rerun(outcome) ==
    LET r == script_run(mode, session_state, student_query, step_input, FALSE,
                        uploaded_file, outcome)
    IN  /\ pass.rerun
        /\ Bounded(mode, r)
        /\ session_state' = r.ss
        /\ UNCHANGED <<mode, student_query, step_input, uploaded_file>>
        /\ Observe("rerun", mode, Empty, FALSE, r)

\* the script runs again with every widget as it is (the browser's Rerun)
Rerender(outcome) ==
    LET r == script_run(mode, session_state, student_query, step_input, FALSE,
                        uploaded_file, outcome)
    IN  /\ ~pass.rerun
        /\ Bounded(mode, r)
        /\ session_state' = r.ss
        /\ UNCHANGED <<mode, student_query, step_input, uploaded_file>>
        /\ Observe("rerender", mode, Empty, FALSE, r)

\* the user uploads a report, or removes the uploaded one
UploadFile(file, outcome) ==
    LET r == script_run(mode, session_state, Empty, Empty, FALSE, file, outcome)
    IN  /\ mode = "Report Result"
        /\ file # uploaded_file
        /\ Bounded(mode, r)
        /\ session_state' = r.ss
        /\ uploaded_file' = file
        /\ UNCHANGED <<mode, student_query, step_input>>
        /\ Observe("upload", mode, Empty, FALSE, r)

Next ==
    \/ \E m \in Modes, outcome \in Outcomes : SelectMode(m, outcome)
    \/ \E query \in Queries \cup {Empty}, outcome \in Outcomes : SubmitQuery(query, outcome)
    \/ \E user_input \in Answers \cup {Empty}, outcome \in Outcomes :
           SubmitAnswer(user_input, outcome)
    \/ \E outcome \in Outcomes : PressRestart(outcome)
    \/ \E outcome \in Outcomes : Rerun(outcome)
    \/ \E outcome \in Outcomes : Rerender(outcome)
    \/ \E file \in Files \cup {NoFile}, outcome \in Outcomes : UploadFile(file, outcome)

Spec == Init /\ [][Next]_vars

(* ---------------- the utility functions applied on their own ------------ *)

FragLike ==
    <<"I", " ", "l", "i", "k", "e", " ">>

FragHave ==
    <<"I", " ", "h", "a", "v", "e", " ">>

FragPain ==
    <<"p", "a", "i", "n">>

FragPainUpper ==
    <<"P", "A", "I", "N">>

FragFeverMixed ==
    <<"F", "e", "v", "e", "r">>

FragFever ==
    <<"f", "e", "v", "e", "r">>

FragCancer ==
    <<"c", "a", "n", "c", "e", "r">>

FragMentalHealth ==
    <<"M", "e", "n", "t", "a", "l", " ", "H", "e", "a", "l", "t", "h">>

FragHead ==
    <<"h", "e", "a", "d">>

FragTes ==
    <<"t", "e", "s">>

FragTing ==
    <<"t", "i", "n", "g">>

FragOus ==
    <<"o", "u", "s">>

FragAche ==
    <<"a", "c", "h", "e">>

FragT ==
    <<"t">>

ExtGif ==
    <<"g", "i", "f">>

\* arguments tried for is_medical_query: a beginning, a middle and an end, so that a
\* keyword may stand alone, inside a longer word, in another case, or be absent
FilterInputs ==
    {pre \o mid \o post :
        pre \in {Empty, FragLike, FragHave},
        mid \in {Empty, FragPain, FragPainUpper, FragFeverMixed, TextFever, FragFever,
                 FragCancer, FragMentalHealth, FragHead, FragTes},
        post \in {Empty, FragTing, FragOus, FragAche, FragT}}

\* file_type values tried for get_gemini_response: the four upload extensions,
\* another extension, and None
FileTypeInputs == {ExtJpg, ExtJpeg, ExtPng, ExtPdf, ExtGif, Empty}

Call(fn, query, vision, file_data, file_type) ==
    [kind |-> "call", fn |-> fn, query |-> query, vision |-> vision,
     file_data |-> file_data, file_type |-> file_type, result |-> FALSE]

UtilityInit ==
    /\ mode = "Select..."
    /\ session_state = [k \in {} |-> 0]
    /\ student_query = Empty
    /\ step_input = Empty
    /\ uploaded_file = NoFile
    /\ pass \in {Call("is_medical_query", q, FALSE, Empty, Empty) : q \in FilterInputs}
            \cup {Call("get_gemini_response", Empty, v, d, t) :
                     v \in BOOLEAN, d \in {Empty, <<1>>}, t \in FileTypeInputs}
    /\ request = NoRequest
    /\ diag_calls = 0
    /\ submitted = <<>>

\* is_medical_query(query) is evaluated
ApplyIsMedicalQuery ==
    /\ pass.kind = "call"
    /\ pass.fn = "is_medical_query"
    /\ pass' = [pass EXCEPT !.kind = "returned", !.result = is_medical_query(pass.query)]
    /\ UNCHANGED <<mode, session_state, student_query, step_input, uploaded_file,
                   request, diag_calls, submitted>>

\* get_gemini_response([prompt], vision=, file_data=, file_type=) is evaluated
ApplyGetGeminiResponse(outcome) ==
    LET g == get_gemini_response(<<[role |-> "user", content |-> report_prompt]>>,
                                 pass.vision, pass.file_data, pass.file_type, outcome)
    IN  /\ pass.kind = "call"
        /\ pass.fn = "get_gemini_response"
        /\ pass' = [pass EXCEPT !.kind = "returned", !.result = g.ok]
        /\ request' = g.request
        /\ UNCHANGED <<mode, session_state, student_query, step_input, uploaded_file,
                       diag_calls, submitted>>

UtilityNext ==
    \/ ApplyIsMedicalQuery
    \/ \E outcome \in Outcomes : ApplyGetGeminiResponse(outcome)

UtilitySpec == UtilityInit /\ [][UtilityNext]_vars

(* ========================= properties of the session ==================== *)

InDoctor == mode = "Doctor Analysis"

Completed == Has(session_state, "doctor_step") /\ doctor_step = N

\* C1: the completion-time diagnostic request is issued exactly once per completed
\* interview instance: every diagnostic call a pass issues is the first one for the
\* instance it renders, however often the completed view is rendered again.
C1_OneCallPerInstance == pass.calls <= 1

\* C2: in every reachable session state 0 <= doctor_step <= N and the keys of
\* doctor_answers are exactly the step ids of the first doctor_step script entries,
\* each once (both keys are created together).
C2_AnswersArePrefix ==
    /\ Has(session_state, "doctor_step") <=> Has(session_state, "doctor_answers")
    /\ Has(session_state, "doctor_step") =>
          /\ doctor_step \in 0..N
          /\ Len(doctor_answers) = doctor_step
          /\ {doctor_answers[i][1] : i \in 1..Len(doctor_answers)}
                 = {StepId(i) : i \in 0..(doctor_step - 1)}

C2_Witness ==
    /\ Completed
    /\ Len(doctor_answers) = N
    /\ pass.kind = "rerender"

\* C3: a non-empty answer at step 0 for which is_medical_query is false is rejected:
\* doctor_step stays 0, doctor_answers stays empty, a warning is shown, no request goes
\* to the Generation Client, and the first question is asked again, also when the page
\* is rendered again with that text still in the input.
C3_NonMedicalFirstAnswerRejected ==
    LET text == IF pass.kind = "answer" THEN pass.input ELSE step_input
    IN  (/\ InDoctor
         /\ pass.kind \in {"answer", "rerender"}
         /\ pass.at_step = 0
         /\ text # Empty
         /\ ~is_medical_query(text))
        => /\ doctor_step = 0
           /\ doctor_answers = <<>>
           /\ pass.shown = "warning"
           /\ pass.gen = "none"
           /\ request = NoRequest
           /\ pass.question = StepQuestion(0)
           /\ step_input = text

C3_Witness ==
    /\ InDoctor
    /\ pass.kind = "rerender"
    /\ pass.at_step = 0
    /\ step_input = TextYesterday
    /\ pass.shown = "warning"

\* C4: from Active(0) with no answers, every accepted submission (any non-empty text
\* after step 0, a text with a keyword at step 0) moves the machine exactly one step
\* forward and appends the pair (id of that step, submitted text); so after k accepted
\* submissions the state is Active(k), or Completed for k = N, and the items of
\* doctor_answers are the script's step ids in script order, each with the text
\* submitted at that step.
C4_AcceptedAnswersWalkTheScript ==
    /\ [][(/\ InDoctor
           /\ pass'.kind = "answer"
           /\ pass'.input # Empty
           /\ (pass'.at_step >= 1 \/ is_medical_query(pass'.input)))
          => /\ doctor_step' = doctor_step + 1
             /\ doctor_answers' = Append(doctor_answers, <<StepId(doctor_step), pass'.input>>)
         ]_vars
    /\ [](Has(session_state, "doctor_step")
          => /\ doctor_step = Len(submitted)
             /\ doctor_answers = [i \in 1..Len(submitted) |-> <<StepId(i - 1), submitted[i]>>])

C4_Witness ==
    /\ Completed
    /\ pass.kind = "answer"
    /\ Len(submitted) = N
    /\ submitted[1] = TextPain
    /\ doctor_answers[N] = <<StepId(N - 1), TextYesterday>>

\* C5: restart() always succeeds: every pass caused by a click on "Start new analysis"
\* ends in Active(0) with empty answers.
C5_RestartAlwaysSucceeds ==
    [][pass'.kind = "restart" => (doctor_step' = 0 /\ doctor_answers' = <<>>)]_vars

\* C6: when a Generation Client call fails, the session state after the failure equals
\* the state before the submission that triggered the call.
C6_FailurePreservesState ==
    [][pass'.gen = "fail" => session_state' = session_state]_vars

\* C7: only step 0 is gated by the keyword filter: at every step i with 1 <= i < N any
\* non-empty submitted text is recorded under the id of step i and the step advances,
\* whether or not is_medical_query holds for it.
C7_OnlyFirstStepGated ==
    (/\ InDoctor
     /\ pass.kind = "answer"
     /\ pass.at_step \in 1..(N - 1)
     /\ pass.input # Empty)
    => /\ doctor_step = pass.at_step + 1
       /\ dict_get(doctor_answers, StepId(pass.at_step), Empty) = pass.input
       /\ pass.shown # "warning"

C7_Witness ==
    /\ InDoctor
    /\ pass.kind = "answer"
    /\ pass.at_step = 1
    /\ pass.input = TextYesterday
    /\ ~is_medical_query(pass.input)
    /\ doctor_step = 2

\* C8: between two restarts doctor_step never decreases, and an answer once recorded is
\* neither changed nor removed by a later submission, rejected submission, re-render or
\* mode switch.
C8_NoBackwardNoEdit ==
    [][(Has(session_state, "doctor_step") /\ pass'.kind # "restart")
       => /\ Has(session_state', "doctor_step")
          /\ doctor_step' >= doctor_step
          /\ Len(doctor_answers') >= Len(doctor_answers)
          /\ \A i \in 1..Len(doctor_answers) : doctor_answers'[i] = doctor_answers[i]
      ]_vars

C8_Witness ==
    /\ InDoctor
    /\ pass.kind = "mode"
    /\ doctor_step = 1
    /\ doctor_answers = <<<<StepId(0), TextFever>>>>

\* the line the summary must hold for script step i
ExpectedLine(answers, i) ==
    [j \in 1..Len(StepId(i)) |-> IF StepId(i)[j] = "_" THEN " " ELSE StepId(i)[j]]
        \o <<":", " ">> \o dict_get(answers, StepId(i), Empty)

\* the lines of script steps 0..n-1, a newline between consecutive lines
RECURSIVE ExpectedSummary(_, _)
ExpectedSummary(answers, n) ==
    IF n = 0 THEN <<>>
    ELSE IF n = 1 THEN ExpectedLine(answers, 0)
    ELSE ExpectedSummary(answers, n - 1) \o <<"\n">> \o ExpectedLine(answers, n - 1)

ExampleSummary ==
    <<"C", "h", "i", "e", "f", " ", "C", "o", "m", "p", "l", "a", "i", "n", "t", ":", " ", "I",
      " ", "h", "a", "v", "e", " ", "a", " ", "h", "e", "a", "d", "a", "c", "h", "e", "\n", "H",
      "P", "I", " ", "O", "n", "s", "e", "t", ":", " ", "s", "i", "n", "c", "e", " ", "y", "e",
      "s", "t", "e", "r", "d", "a", "y">>

ReachedSummary ==
    <<"C", "h", "i", "e", "f", " ", "C", "o", "m", "p", "l", "a", "i", "n", "t", ":", " ", "I",
      " ", "h", "a", "v", "e", " ", "p", "a", "i", "n", "\n", "H", "P", "I", " ", "O", "n", "s",
      "e", "t", ":", " ", "s", "i", "n", "c", "e", " ", "y", "e", "s", "t", "e", "r", "d", "a",
      "y">>

\* C9: the summary handed to the diagnostic prompt is one line per script step, in
\* script order, each line the step id with every underscore replaced by a space, then
\* ": ", then the answer recorded for that step, the lines joined by a newline; also
\* for an interview completed after restarts. The answers summarised are those held
\* when the call is made (in the run of a restart click, those held before the reset).
\* The call is made by the first Doctor Analysis run that finds the interview
\* Completed: the run asked for at line 131, or a later one when the mode was
\* switched in between. For the two
\* first script steps with answers "I have a headache" and "since yesterday" the
\* summary is "Chief Complaint: I have a headache\nHPI Onset: since yesterday".
C9_SummaryFormat ==
    /\ [][(mode' = "Doctor Analysis" /\ pass'.gen # "none")
          => LET answers == IF pass'.kind = "restart" THEN doctor_answers
                            ELSE doctor_answers'
             IN  /\ request'.kind = "chat"
                 /\ request'.user_msg = diagnostic_instructions \o ExpectedSummary(answers, N)
         ]_vars
    /\ [](summary(<< <<all_clinical_steps[1][1], TextHeadache>>,
                     <<all_clinical_steps[2][1], TextYesterday>> >>) = ExampleSummary)

\* the run that follows the last accepted answer has handed over the summary of both
C9_Witness ==
    /\ Completed
    /\ pass.kind = "rerun"
    /\ pass.gen = "ok"
    /\ doctor_answers = << <<StepId(0), TextPain>>, <<StepId(1), TextYesterday>> >>
    /\ request.user_msg = diagnostic_instructions \o ReachedSummary

\* C10: in Student Help a non-empty query for which is_medical_query is false changes
\* nothing in the session state (student_history included) and sends no request to the
\* Generation Client; a warning is shown and the input stays on the page.
C10_NonMedicalQueryRejected ==
    [][(/\ mode' = "Student Help"
        /\ pass'.kind \in {"query", "rerender"}
        /\ student_query' # Empty
        /\ ~is_medical_query(student_query'))
       => /\ session_state' = session_state
          /\ pass'.gen = "none"
          /\ request' = NoRequest
          /\ pass'.shown = "warning"
      ]_vars

C10_Witness ==
    /\ mode = "Student Help"
    /\ pass.kind = "query"
    /\ student_query = TextHeadache
    /\ pass.shown = "warning"
    /\ Len(student_history) = 2

(* ==================== properties of the utility functions =============== *)

Returned(fn) == pass.kind = "returned" /\ pass.fn = fn

TextLikePainting ==
    <<"I", " ", "l", "i", "k", "e", " ", "p", "a", "i", "n", "t", "i", "n", "g">>

TextCancerous ==
    <<"c", "a", "n", "c", "e", "r", "o", "u", "s">>

\* C11 as stated: is_medical_query("I like painting") is false and
\* is_medical_query("I have pain") is true.
C11_PaintingIsNotMedical ==
    Returned("is_medical_query") =>
        /\ pass.query = TextLikePainting => pass.result = FALSE
        /\ pass.query = TextPain => pass.result = TRUE

\* C11 amended: is_medical_query("I like painting") is true, because "pain" occurs
\* inside "painting", and is_medical_query("I have pain") is true.
C11_PaintingIsMedical ==
    Returned("is_medical_query") =>
        /\ pass.query = TextLikePainting => pass.result = TRUE
        /\ pass.query = TextPain => pass.result = TRUE

C11_Witness ==
    /\ Returned("is_medical_query")
    /\ pass.query = TextLikePainting
    /\ pass.result = TRUE

\* str.upper(), to re-case an argument
upper(s) ==
    [i \in 1..Len(s) |->
        IF \E j \in 1..Len(LowerCase) : LowerCase[j] = s[i]
        THEN UpperCase[CHOOSE j \in 1..Len(LowerCase) : LowerCase[j] = s[i]]
        ELSE s[i]]

\* c and d are the same letter in any case, or the same character
SameFolded(c, d) ==
    \/ c = d
    \/ \E j \in 1..Len(LowerCase) : {c, d} = {LowerCase[j], UpperCase[j]}

\* word stands in text from position i on, whatever the case of text
OccursAt(text, word, i) ==
    /\ i + Len(word) - 1 <= Len(text)
    /\ \A j \in 1..Len(word) : SameFolded(text[i + j - 1], word[j])

\* C12: is_medical_query returns true exactly when some entry of the keyword list
\* occurs as a contiguous run of characters of the input, compared without regard to
\* case; the result is the same for the input in upper case and in lower case ("FEVER"
\* and "fever" are both true), a keyword inside a longer word matches ("cancerous"),
\* and the empty string gives false.
C12_KeywordSubstringIgnoringCase ==
    Returned("is_medical_query") =>
        /\ pass.result = (\E k \in 1..Len(medical_keywords) :
                             \E i \in 1..Len(pass.query) :
                                 OccursAt(pass.query, medical_keywords[k], i))
        /\ is_medical_query(upper(pass.query)) = pass.result
        /\ is_medical_query(lower(pass.query)) = pass.result
        /\ pass.query \in {TextFever, FragFever, TextCancerous} => pass.result = TRUE
        /\ pass.query = Empty => pass.result = FALSE

C12_Witness ==
    /\ Returned("is_medical_query")
    /\ pass.query = TextFever
    /\ pass.result = TRUE

\* the media types named for the Generation Client boundary
MediaTypes == {MimeJpeg, MimePng, MimePdf, MimeOctet}

\* C13: whenever get_gemini_response is given an attachment (vision=True, non-empty
\* file_data), the media type tag on the binary part is one of image/jpeg, image/png,
\* application/pdf, application/octet-stream, for every file_type, the upload
\* extensions pdf, jpg, jpeg and png included.
C13_MediaTypeInSet ==
    (/\ Returned("get_gemini_response")
     /\ pass.vision
     /\ pass.file_data # Empty)
    => /\ request.kind = "generate_content"
       /\ request.parts[2].mime_type \in MediaTypes

(* ===================== further properties of the session ================ *)

InReport == mode = "Report Result"

InStudent == mode = "Student Help"

\* C14: in Report Result a failing Generation Client call is caught where it is made:
\* the pass shows the error message in place of an analysis and no exception escapes,
\* the session state is as before, and the next upload or mode switch is carried out
\* as usual.
C14_ReportFailureCaught ==
    /\ []((InReport /\ pass.gen = "fail") => pass.shown = "error")
    /\ [][(mode' = "Report Result" /\ pass'.gen = "fail")
          => session_state' = session_state]_vars
    /\ [][(InReport /\ pass.gen = "fail")
          => /\ (pass'.kind = "upload" /\ pass'.gen = "ok") => pass'.shown = "analysis"
             /\ (pass'.kind = "upload" /\ ~uploaded_file'.present) => pass'.shown = "none"
             /\ pass'.kind = "mode" => (mode' # mode /\ pass'.shown # "error")
         ]_vars

C14_Witness ==
    /\ InReport
    /\ pass.kind = "upload"
    /\ uploaded_file.present
    /\ pass.gen = "fail"
    /\ pass.shown = "error"

IsPrefix(s, t) == Len(s) <= Len(t) /\ SubSeq(t, 1, Len(s)) = s

\* C15: student_history is append-only: once the key exists it stays, and across every
\* pass (accepted or rejected query, failed call, re-render, mode switch, interview
\* restart) the old value is a prefix of the new one.
C15_HistoryAppendOnly ==
    [][Has(session_state, "student_history")
       => /\ Has(session_state', "student_history")
          /\ IsPrefix(student_history, student_history')]_vars

C15_Witness ==
    /\ InStudent
    /\ pass.kind = "rerender"
    /\ pass.gen = "fail"
    /\ Len(student_history) = 3

\* C16: an accepted submission at Active(i) raises doctor_step by exactly 1 and leaves
\* the input of step i+1 empty; the text is recorded under the id of step i only, and a
\* run without a new answer (the run the acceptance asked for, a re-render, a mode
\* switch, a query, an upload) changes neither doctor_step nor doctor_answers; the run
\* the acceptance asked for asks the question of step i+1 with the input empty.
C16_OneStepPerAnswer ==
    /\ [][(InDoctor /\ mode' = mode /\ pass'.kind = "answer" /\ doctor_step' # doctor_step)
          => /\ doctor_step' = doctor_step + 1
             /\ step_input' = Empty
             /\ Len(doctor_answers') = Len(doctor_answers) + 1
             /\ doctor_answers'[doctor_step'] = <<StepId(doctor_step), pass'.input>>
         ]_vars
    /\ [][(Has(session_state, "doctor_step")
           /\ pass'.kind \in {"rerun", "rerender", "mode", "query", "upload"})
          => /\ doctor_step' = doctor_step
             /\ doctor_answers' = doctor_answers
         ]_vars
    /\ [][(pass.kind = "answer" /\ pass'.kind = "rerun" /\ doctor_step < N)
          => /\ step_input' = Empty
             /\ pass'.question = StepQuestion(doctor_step)
             /\ pass'.shown = "none"
         ]_vars

C16_Witness ==
    /\ InDoctor
    /\ pass.kind = "rerun"
    /\ pass.question = StepQuestion(1)
    /\ doctor_step = 1
    /\ step_input = Empty
    /\ doctor_answers = <<<<StepId(0), TextPain>>>>

\* what get_gemini_response makes of a message list in its chat branch
AsChatHistory(messages) ==
    [i \in 1..Len(messages) |-> [role |-> messages[i].role, parts |-> <<messages[i].content>>]]

\* C17: for every query that reaches the Generation Client in Student Help, the message
\* list handed over is the instruction message followed by the whole student_history
\* as it was plus the query as its last element, and the text sent is that query; the
\* reply is in student_history only after the call has returned: not in the list handed
\* over, and appended after the query when the call succeeds.
C17_StudentMessages ==
    [][(InStudent /\ mode' = mode /\ pass'.gen # "none")
       => LET query == student_query'
              asked == student_history \o <<[role |-> "user", content |-> query]>>
          IN  /\ request'.kind = "chat"
              /\ request'.history
                    = AsChatHistory(<<[role |-> "user", content |-> system_prompt]>> \o asked)
              /\ request'.user_msg = query
              /\ pass'.gen = "ok"
                    => student_history' = asked \o <<[role |-> "model", content |-> TextReply]>>
              /\ pass'.gen = "fail" => student_history' = asked
      ]_vars

C17_Witness ==
    /\ InStudent
    /\ pass.kind = "query"
    /\ pass.gen = "ok"
    /\ Len(student_history) = 4
    /\ Len(request.history) = 4

\* C18: in the completed branch the restart button is evaluated only after the
\* diagnostic call of the same run has returned: a run caused by the click always
\* issues the call first and resets the interview only when the call succeeded; after a
\* failed call the button is not on the page, the session is Completed with the answers
\* it had, and every Doctor Analysis run that finds the interview Completed attempts
\* the call.
C18_RestartOnlyAfterSuccessfulCall ==
    /\ [][pass'.kind = "restart"
          => /\ Completed
             /\ pass'.gen # "none"
             /\ pass'.calls = diag_calls + 1
             /\ (doctor_step' = 0) <=> (pass'.gen = "ok")
         ]_vars
    /\ [][(mode' = "Doctor Analysis" /\ pass'.gen = "fail")
          => /\ doctor_step' = N
             /\ ~pass'.button
             /\ pass'.kind # "answer" => session_state' = session_state
         ]_vars
    /\ [][(Completed /\ mode' = "Doctor Analysis") => pass'.gen # "none"]_vars

C18_Witness ==
    /\ InDoctor
    /\ pass.kind = "restart"
    /\ pass.gen = "fail"
    /\ Completed
    /\ ~pass.button
    /\ Len(doctor_answers) = N

\* the part of the session state under the given keys
Restrict(ss, keys) == [k \in DOMAIN ss \cap keys |-> ss[k]]

DoctorKeys == {"doctor_step", "doctor_answers"}

StudentKeys == {"student_history"}

\* C19: a pass in Student Help, in Report Result or on the landing page leaves
\* doctor_step and doctor_answers as they are; a pass in Doctor Analysis, in Report
\* Result or on the landing page leaves student_history as it is; and selecting a mode
\* resets neither, so an interview left at Active(i) is found at Active(i) with the
\* same answers.
C19_ModeIsolation ==
    /\ [][mode' # "Doctor Analysis"
          => Restrict(session_state', DoctorKeys) = Restrict(session_state, DoctorKeys)]_vars
    /\ [][mode' # "Student Help"
          => Restrict(session_state', StudentKeys) = Restrict(session_state, StudentKeys)]_vars
    /\ [][(pass'.kind = "mode" /\ Has(session_state, "doctor_step"))
          => Restrict(session_state', DoctorKeys) = Restrict(session_state, DoctorKeys)]_vars
    /\ [][(pass'.kind = "mode" /\ Has(session_state, "student_history"))
          => Restrict(session_state', StudentKeys) = Restrict(session_state, StudentKeys)]_vars

\* back in Doctor Analysis at Active(1) with a conversation held in between
C19_Witness ==
    /\ InDoctor
    /\ pass.kind = "mode"
    /\ doctor_step = 1
    /\ doctor_answers = <<<<StepId(0), TextPain>>>>
    /\ Has(session_state, "student_history")
    /\ Len(student_history) = 2

\* C20: student_history is empty or begins with a user entry, and every model entry
\* comes right after a user entry; a pass adds nothing, or the query and its reply when
\* the call succeeded, or the query alone when the call failed, so a user entry has no
\* model entry after it only when its call failed.
C20_HistoryShape ==
    /\ [](Has(session_state, "student_history")
          => /\ \A i \in 1..Len(student_history) :
                    student_history[i].role \in {"user", "model"}
             /\ student_history # <<>> => student_history[1].role = "user"
             /\ \A i \in 1..Len(student_history) :
                    student_history[i].role = "model"
                        => (i > 1 /\ student_history[i - 1].role = "user"))
    /\ [][(Has(session_state, "student_history") /\ Has(session_state', "student_history"))
          => LET asked == student_history
                              \o <<[role |-> "user", content |-> student_query']>>
             IN  \/ /\ student_history' = student_history
                    /\ mode' = "Student Help" => pass'.gen = "none"
                 \/ /\ mode' = "Student Help"
                    /\ pass'.gen = "fail"
                    /\ student_history' = asked
                 \/ /\ mode' = "Student Help"
                    /\ pass'.gen = "ok"
                    /\ student_history' = asked \o <<[role |-> "model", content |-> TextReply]>>
         ]_vars

\* a query whose call failed, then the same query answered
C20_Witness ==
    /\ InStudent
    /\ Len(student_history) = 3
    /\ student_history[1].role = "user"
    /\ student_history[2].role = "user"
    /\ student_history[3].role = "model"

====
